---- MODULE Spec2Model ----
(***************************************************************************)
(* State-machine model of space_race_project.py: a straight-line script    *)
(* that loads mission_launches.csv, normalises the mission table, computes *)
(* group-by aggregates and writes eight artifacts to exports/.             *)
(*                                                                         *)
(* Text cells are modelled as sequences of tokens: the delimiters ",",     *)
(* "|" and the blank " " are tokens of their own, every other token is a   *)
(* run of ordinary characters.  A missing cell (NaN) is the reserved       *)
(* one-token text NaN.  A date text is the sequence of its numeric fields  *)
(* in the order of the data set ("Aug 07, 2020" is <<8, 7, 2020>>).        *)
(* Percentages are exact rationals <<numerator, denominator>>; the         *)
(* floating-point rounding of the original is not modelled.                *)
(***************************************************************************)
EXTENDS Integers, Sequences, FiniteSets, TLC

\* ------------------------------------------------------------------ bounds
MaxRows == 2      \* longest table drawn freely from RowPool
MaxWide == 16     \* most distinct countries/agencies in a wide table
MaxYears == 6     \* most distinct launch years in a yearly table
MaxRuns == 2      \* script invocations in SpecRuns
MaxOrderRows == 2 \* longest table normalized in every order in SpecOrder

\* -------------------------------------------------------- generic helpers
NaN == <<"<missing>">>
NaT == <<>>

Max(S) == CHOOSE x \in S : \A y \in S : y <= x
Min(S) == CHOOSE x \in S : \A y \in S : x <= y

RECURSIVE SeqSum(_)
SeqSum(s) == IF s = <<>> THEN 0 ELSE Head(s) + SeqSum(Tail(s))

RECURSIVE GCD(_, _)
GCD(a, b) == IF b = 0 THEN a ELSE GCD(b, a % b)

\* exact rational n/d in lowest terms; 0/0 is NaN as in numpy
Rat(n, d) == IF d = 0 THEN NaN ELSE LET g == GCD(n, d) IN <<n \div g, d \div g>>
RatAdd(p, q) == Rat(p[1] * q[2] + q[1] * p[2], p[2] * q[2])
RatDiv(p, k) == Rat(p[1], p[2] * k)

RECURSIVE RatSum(_)
RatSum(s) == IF s = <<>> THEN <<0, 1>> ELSE RatAdd(Head(s), RatSum(Tail(s)))

\* pandas Series.head(n)
head(s, n) == SubSeq(s, 1, IF Len(s) < n THEN Len(s) ELSE n)

\* ------------------------------------------------------ string operations
\* str.split(sep): the list of segments between separator tokens
RECURSIVE split(_, _)
split(s, sep) ==
    LET idx == {i \in 1..Len(s) : s[i] = sep}
    IN IF idx = {} THEN <<s>>
       ELSE LET k == Min(idx)
            IN <<SubSeq(s, 1, k - 1)>> \o split(SubSeq(s, k + 1, Len(s)), sep)

\* str.strip(): drop leading and trailing blanks
strip(s) ==
    LET idx == {i \in 1..Len(s) : s[i] # " "}
    IN IF idx = {} THEN <<>> ELSE SubSeq(s, Min(idx), Max(idx))

\* .str.split(",").str[-1].str.strip(), NaN propagating
country_of(loc) ==
    IF loc = NaN THEN NaN
    ELSE LET parts == split(loc, ",") IN strip(parts[Len(parts)])

\* .str.split("|").str[0].str.strip(), NaN propagating
rocket_family_of(det) ==
    IF det = NaN THEN NaN ELSE strip(split(det, "|")[1])

\* ------------------------------------------------------------------ dates
MinYear == 1678   \* full years representable by a pandas Timestamp
MaxYearTs == 2261

IsLeap(y) == (y % 4 = 0 /\ y % 100 # 0) \/ y % 400 = 0

DaysIn(m, y) ==
    IF m = 2 THEN (IF IsLeap(y) THEN 29 ELSE 28)
    ELSE IF m \in {4, 6, 9, 11} THEN 30 ELSE 31

\* pd.to_datetime(text, errors="coerce"): <<year, month, day>> or NaT.
\* Every date text of a file is taken to be in the one format of the data set,
\* so that a text parses or not independently of the other rows.
to_datetime(t) ==
    IF /\ Len(t) = 3
       /\ t[3] \in MinYear..MaxYearTs
       /\ t[1] \in 1..12
       /\ t[2] \in 1..DaysIn(t[1], t[3])
    THEN <<t[3], t[1], t[2]>>
    ELSE NaT

month_order == <<"January", "February", "March", "April", "May", "June", "July",
                 "August", "September", "October", "November", "December">>
day_order == <<"Monday", "Tuesday", "Wednesday", "Thursday", "Friday",
               "Saturday", "Sunday">>

\* .dt.day_name(): Gregorian weekday of a parsed date
day_name(d) ==
    LET t  == <<0, 3, 2, 5, 0, 3, 5, 1, 4, 6, 2, 4>>
        y  == IF d[2] < 3 THEN d[1] - 1 ELSE d[1]
        w  == (y + y \div 4 - y \div 100 + y \div 400 + t[d[2]] + d[3]) % 7
    IN day_order[((w + 6) % 7) + 1]

\* ------------------------------------------------------------- normalizer
column_mapping ==
    [Organisation |-> "agency", Location |-> "location_name", Date |-> "date",
     Detail |-> "rocket", Rocket_Status |-> "rocket_status", Price |-> "price",
     Mission_Status |-> "status"]

\* new name of a column under df.rename(columns=column_mapping)
renamed(c) == IF c \in DOMAIN column_mapping THEN column_mapping[c] ELSE c

\* add or overwrite column c of row r
WithCol(r, c, v) == (c :> v) @@ r

RenameRow(r) ==
    [c \in {renamed(k) : k \in DOMAIN r} |->
        r[CHOOSE k \in DOMAIN r : renamed(k) = c]]
Rename(t) == [i \in 1..Len(t) |-> RenameRow(t[i])]

ExtractCountryRow(r) == WithCol(r, "country_full", country_of(r.location_name))
ExtractCountry(t) == [i \in 1..Len(t) |-> ExtractCountryRow(t[i])]

ExtractFamilyRow(r) == WithCol(r, "rocket_family", rocket_family_of(r.rocket))
ExtractFamily(t) == [i \in 1..Len(t) |-> ExtractFamilyRow(t[i])]

ParseDateRow(r) == WithCol(r, "date", to_datetime(r.date))
ParseDates(t) == [i \in 1..Len(t) |-> ParseDateRow(t[i])]

\* dropna() without the subset: a row with any missing cell is dropped
IsComplete(r) == r.date # NaT /\ \A c \in DOMAIN r \ {"date"} : r[c] # NaN
DropNa_mut(t) == SelectSeq(t, IsComplete)

\* df.dropna(subset=["date"])
IsDated(r) == r.date # NaT
DropNa(t) == SelectSeq(t, IsDated)

\* rounding to the nearest decade instead of truncating
decade_of_mut(y) == ((y + 5) \div 10) * 10

decade_of(y) == (y \div 10) * 10

TemporalRow(r) ==
    LET y == r.date[1]
        m == r.date[2]
    IN ("year" :> y) @@ ("month" :> m) @@ ("month_name" :> month_order[m])
       @@ ("decade" :> decade_of(y)) @@ ("day_of_week" :> day_name(r.date)) @@ r
Temporal(t) == [i \in 1..Len(t) |-> TemporalRow(t[i])]

\* the second keyword forgotten
success_keywords_mut == {<<"Success">>}

success_keywords == {<<"Success">>, <<"Partial", " ", "Failure">>}

is_success(st) == st \in success_keywords
SuccessRow(r) == WithCol(r, "success", is_success(r.status))
Success(t) == [i \in 1..Len(t) |-> SuccessRow(t[i])]

\* a table one of whose values is itself a key with another value
country_mapping_mut ==
    (<<"USA">> :> <<"United", " ", "States">>)
    @@ (<<"Kazakhstan">> :> <<"Russia">>)
    @@ (<<"Russia">> :> <<"Russian", " ", "Federation">>)
    @@ (<<"French", " ", "Guiana">> :> <<"France">>)

country_mapping ==
    (<<"USA">> :> <<"United", " ", "States">>)
    @@ (<<"China">> :> <<"China">>)
    @@ (<<"Russia">> :> <<"Russia">>)
    @@ (<<"Kazakhstan">> :> <<"Kazakhstan">>)
    @@ (<<"French", " ", "Guiana">> :> <<"France">>)
    @@ (<<"India">> :> <<"India">>)
    @@ (<<"Japan">> :> <<"Japan">>)
    @@ (<<"New", " ", "Zealand">> :> <<"New", " ", "Zealand">>)

\* Series.map(country_mapping): NaN for a key that is absent
map_country(c) == IF c \in DOMAIN country_mapping THEN country_mapping[c] ELSE NaN

\* .map(country_mapping).fillna(original)
canonical(c) == IF map_country(c) = NaN THEN c ELSE map_country(c)

CanonRow(r) == WithCol(r, "country_full", canonical(r.country_full))
Canon(t) == [i \in 1..Len(t) |-> CanonRow(t[i])]

\* ------------------------------------------------------------- aggregator
HeadN == 15

Column(t, c) == [i \in 1..Len(t) |-> t[i][c]]

IsPresent(v) == v # NaN

\* distinct values of a series in order of first appearance
RECURSIVE uniq(_)
uniq(s) ==
    IF s = <<>> THEN <<>>
    ELSE LET r == uniq(SubSeq(s, 1, Len(s) - 1))
             x == s[Len(s)]
         IN IF \E i \in 1..Len(r) : r[i] = x THEN r ELSE Append(r, x)

CountOf(s, v) == Cardinality({i \in 1..Len(s) : s[i] = v})

\* value_counts(dropna=False): the missing value is counted as a value
value_counts_mut(s) ==
    LET vals == uniq(s)
        n    == Len(vals)
        cnt  == [j \in 1..n |-> CountOf(s, vals[j])]
        rank(j) == 1 + Cardinality({k \in 1..n :
                        cnt[k] > cnt[j] \/ (cnt[k] = cnt[j] /\ k < j)})
    IN [p \in 1..n |->
          LET j == CHOOSE j \in 1..n : rank(j) = p
          IN [key |-> vals[j], n |-> cnt[j]]]

\* Series.value_counts(): missing values are left out, most frequent first,
\* equal counts in order of first appearance
value_counts(s) ==
    LET vals == uniq(SelectSeq(s, IsPresent))
        n    == Len(vals)
        cnt  == [j \in 1..n |-> CountOf(s, vals[j])]
        rank(j) == 1 + Cardinality({k \in 1..n :
                        cnt[k] > cnt[j] \/ (cnt[k] = cnt[j] /\ k < j)})
    IN [p \in 1..n |->
          LET j == CHOOSE j \in 1..n : rank(j) = p
          IN [key |-> vals[j], n |-> cnt[j]]]

\* the keys of a group-by, ascending
SortAsc(S) ==
    [p \in 1..Cardinality(S) |->
        CHOOSE x \in S : Cardinality({y \in S : y < x}) = p - 1]

KeysOf(t, c) == SortAsc({t[i][c] : i \in 1..Len(t)})

RowsWith(t, c, v) == {i \in 1..Len(t) : t[i][c] = v}

\* df.groupby("year").size().reset_index(name="missions")
groupby_size(t, c) ==
    LET keys == KeysOf(t, c)
    IN [p \in 1..Len(keys) |->
          [year |-> keys[p], missions |-> Cardinality(RowsWith(t, c, keys[p]))]]

\* percentage of successful rows among the rows in I: mean() * 100
success_pct(t, I) ==
    Rat(100 * Cardinality({i \in I : t[i].success}), Cardinality(I))

\* df.groupby(c)["success"].agg(["sum", "count"]) with the rate column added
groupby_success(t, c) ==
    LET keys == KeysOf(t, c)
    IN [p \in 1..Len(keys) |->
          LET I == RowsWith(t, c, keys[p])
          IN [key   |-> keys[p],
              sum   |-> Cardinality({i \in I : t[i].success}),
              count |-> Cardinality(I),
              rate  |-> success_pct(t, I)]]

\* a trailing window: center=True left out
rolling_mean_mut(s, window, center) ==
    LET n == Len(s)
    IN [i \in 1..n |->
          LET lo  == IF i - window + 1 < 1 THEN 1 ELSE i - window + 1
              obs == SelectSeq(SubSeq(s, lo, i), IsPresent)
          IN IF Len(obs) < window THEN NaN
             ELSE RatDiv(RatSum(obs), Len(obs))]

\* Series.rolling(window, center).mean() with the default min_periods = window
rolling_mean(s, window, center) ==
    LET n      == Len(s)
        offset == IF center THEN (window - 1) \div 2 ELSE 0
    IN [i \in 1..n |->
          LET hi  == IF i + offset > n THEN n ELSE i + offset
              lo  == IF i + offset - window + 1 < 1 THEN 1
                     ELSE i + offset - window + 1
              obs == SelectSeq(SubSeq(s, lo, hi), IsPresent)
          IN IF Len(obs) < window THEN NaN
             ELSE RatDiv(RatSum(obs), Len(obs))]

major_powers == {<<"United", " ", "States">>, <<"Russia">>, <<"China">>}

IsMajorPower(r) == r.country_full \in major_powers
\* df[df["country_full"].isin(major_powers)]
PowersOf(t) == SelectSeq(t, IsMajorPower)

\* number of distinct non-missing values: Series.nunique()
nunique(s) == Len(uniq(SelectSeq(s, IsPresent)))

\* the scalars interpolated into the narrative of STEP 10
SummaryOf(t, cm, om, mpy, tr) ==
    LET decades == {t[i].decade : i \in 1..Len(t)}
        years   == {t[i].year : i \in 1..Len(t)}
        peak    == CHOOSE p \in 1..Len(mpy) :
                      /\ \A q \in 1..Len(mpy) : mpy[q].missions <= mpy[p].missions
                      /\ \A q \in 1..(p - 1) : mpy[q].missions < mpy[p].missions
    IN [total           |-> Len(t),
        first_year      |-> Min(years),
        last_year       |-> Max(years),
        countries       |-> nunique(Column(t, "country_full")),
        organizations   |-> nunique(Column(t, "agency")),
        leading_country |-> cm[1],
        top_org         |-> om[1],
        top_rocket      |-> IF Len(tr) > 0 THEN tr[1] ELSE [key |-> NaN, n |-> 0],
        success_rate    |-> success_pct(t, 1..Len(t)),
        old_success     |-> success_pct(t, RowsWith(t, "decade", Min(decades))),
        recent_success  |-> success_pct(t, RowsWith(t, "decade", Max(decades))),
        peak_year       |-> mpy[peak].year]

\* ----------------------------------------------------------------- inputs
Row(org, loc, date, det, st) ==
    [Organisation |-> org, Location |-> loc, Date |-> date, Detail |-> det,
     Rocket_Status |-> <<"StatusActive">>, Price |-> <<"62.0">>,
     Mission_Status |-> st]

RowPool ==
    { Row(<<"SpaceX">>, <<"KSC", ",", " ", "Florida", ",", " ", "USA">>,
          <<8, 7, 2020>>,
          <<"Falcon", " ", "9", " ", "|", " ", "Starlink">>, <<"Success">>),
      Row(<<"SpaceX">>, <<"KSC", ",", " ", "USA", " ">>, <<2, 29, 2020>>,
          <<"Falcon", " ", "9", "|", "Demo">>, <<"Success", " ">>),
      Row(<<"RVSN">>, <<"Baikonur", ",", "Kazakhstan">>, <<10, 4, 1957>>,
          <<"Sputnik">>, <<"Failure">>),
      Row(<<"Arianespace">>, <<"Kourou", ",", " ", "French", " ", "Guiana">>,
          <<12, 31, 1969>>, <<"Ariane", " ", "5", " ", "|">>,
          <<"Partial", " ", "Failure">>),
      Row(<<"Arianespace">>, <<"Kourou", ",", " ", "French", " ", "Guiana">>,
          <<2, 29, 2019>>, <<"Ariane", " ", "5", " ", "|">>,
          <<"Partial", " ", "Failure">>),
      Row(NaN, NaN, <<7, 16, 1969>>, NaN, NaN),
      Row(<<"CASC">>, <<"Yellow", " ", "Sea">>, <<6, 1, 2019>>,
          <<"Long", " ", "March">>, <<"Prelaunch", " ", "Failure">>),
      Row(<<"NASA">>, <<"KSC", ",", " ", "USA">>, NaN,
          <<"Saturn", " ", "V", " ", "|", " ", "Apollo">>, <<"Success">>),
      Row(<<"ISRO">>, <<"Sriharikota", ",", " ", "India">>, <<13, 1, 1980>>,
          <<"SLV">>, <<"Success">>),
      Row(<<"ISRO">>, <<"Sriharikota", ",", " ", "India">>, <<1, 1, 1980>>,
          <<"SLV">>, <<"success">>) }

\* every table of at most k rows over a pool of rows
TablesOver(pool, k) == UNION {[1..n -> pool] : n \in 0..k}

SmallTables == TablesOver(RowPool, MaxRows)

\* k distinct countries and agencies, the first of them launching twice,
\* and a last record without a readable date
WideRow(i) ==
    Row(<<"Org", ToString(i)>>, <<"Pad", ",", " ", "Land", ToString(i)>>,
        IF i = 0 THEN <<0, 0, 0>> ELSE <<1, 1, 1990 + i>>,
        <<"Rocket", ToString(i)>>,
        IF i % 2 = 0 THEN <<"Success">> ELSE <<"Failure">>)
WideTable(k) ==
    [i \in 1..(k + 2) |-> WideRow(IF i = k + 1 THEN 1 ELSE IF i = k + 2 THEN 0 ELSE i)]
WideTables == {WideTable(k) : k \in (HeadN - 1)..MaxWide}

\* one launch in each of n years (with a gap in the calendar), any outcomes,
\* and a second, successful launch in the second year
YearOf(i) == 1957 + i + (IF i > 3 THEN 4 ELSE 0)
YearRow(i, ok) ==
    Row(<<"RVSN">>, <<"Baikonur", ",", "Kazakhstan">>, <<1, 1, YearOf(i)>>,
        <<"Vostok">>, IF ok THEN <<"Success">> ELSE <<"Failure">>)
YearTable(f) ==
    [i \in 1..(Len(f) + 1) |-> IF i > Len(f) THEN YearRow(2, TRUE) ELSE YearRow(i, f[i])]
YearTables == {YearTable(f) : f \in UNION {[1..n -> BOOLEAN] : n \in 4..MaxYears}}

NoFile == [kind |-> "missing", rows |-> <<>>]
BadFile == [kind |-> "unparsable", rows |-> <<>>]
TableFile(t) == [kind |-> "table", rows |-> t]

Inputs ==
    {NoFile, BadFile}
    \cup {TableFile(t) : t \in SmallTables \cup WideTables \cup YearTables}

\* --------------------------------------------------------------- exporter
Artifacts == {"processed", "country", "organization", "yearly", "rocket",
              "summary", "decade", "workbook"}

\* the columns of the table in the order in which they were created
ColumnOrder ==
    <<"agency", "location_name", "date", "rocket", "rocket_status", "price",
      "status", "country_full", "rocket_family", "year", "month", "month_name",
      "decade", "day_of_week", "success">>

\* text of one cell in a delimited file: a missing value is the empty field
csv_cell(c, v) ==
    IF c \in {"year", "month", "decade"} THEN <<ToString(v)>>
    ELSE IF c = "success" THEN (IF v THEN <<"True">> ELSE <<"False">>)
    ELSE IF c \in {"month_name", "day_of_week"} THEN <<v>>
    ELSE IF c = "date"
         THEN <<ToString(v[1]), "-", ToString(v[2]), "-", ToString(v[3])>>
    ELSE IF v = NaN THEN <<>> ELSE v

\* df.to_csv(file, index=False)
to_csv(t) ==
    [header |-> ColumnOrder,
     lines  |-> [i \in 1..Len(t) |->
                   [k \in 1..Len(ColumnOrder) |->
                      csv_cell(ColumnOrder[k], t[i][ColumnOrder[k]])]]]

\* a frame with one row per entry of a value_counts series and the success
\* rate of the rows of t carrying that value in column c
StatsOf(t, counts, c) ==
    [p \in 1..Len(counts) |->
        [name           |-> counts[p].key,
         total          |-> counts[p].n,
         success_rate   |-> success_pct(t, RowsWith(t, c, counts[p].key))]]

YearlyOf(t, mpy) ==
    [p \in 1..Len(mpy) |->
        [year |-> mpy[p].year, missions |-> mpy[p].missions,
         success_rate |-> success_pct(t, RowsWith(t, "year", mpy[p].year))]]

DecadeOf(sbd) ==
    [p \in 1..Len(sbd) |->
        [decade |-> sbd[p].key, Total_Missions |-> sbd[p].count,
         Successful_Missions |-> sbd[p].sum, Success_Rate |-> sbd[p].rate]]

NoArtifact == [run |-> 0, complete |-> FALSE, content |-> <<>>]
Written(r, c) == [run |-> r, complete |-> TRUE, content |-> c]
Damaged(r) == [run |-> r, complete |-> FALSE, content |-> <<>>]

\* ------------------------------------------------------------------ state
VARIABLES
    csv,               \* mission_launches.csv as found by this run
    openpyxl,          \* whether the optional spreadsheet library is installed
    run,               \* number of the current invocation of the script
    pc,                \* position of the script
    out,               \* what has been reported on standard output
    df,                \* the mission table
    country_missions, org_missions, missions_per_year, df_powers,
    success_by_decade, success_by_year, rolling_success, top_rockets, summary,
    country_stats, org_stats, yearly_stats, rocket_stats, decade_stats,
    exports,           \* the exports/ directory
    alt                \* the normalizer run with its derivations in another order

aggregates == <<country_missions, org_missions, missions_per_year, df_powers,
                success_by_decade, success_by_year, rolling_success,
                top_rockets, summary>>
frames == <<country_stats, org_stats, yearly_stats, rocket_stats, decade_stats>>
env == <<csv, openpyxl, run, alt>>
vars == <<csv, openpyxl, run, pc, out, df, aggregates, frames, exports, alt>>

\* no reordered normalization under way
Idle == [order |-> <<>>, done |-> 0, rows |-> <<>>, columns |-> <<>>,
         float_temporal |-> FALSE, status |-> "idle"]

NoExports == [exists |-> FALSE, files |-> [a \in Artifacts |-> NoArtifact]]

Fresh ==
    /\ pc = "load"
    /\ out = {}
    /\ df = <<>>
    /\ country_missions = <<>> /\ org_missions = <<>>
    /\ missions_per_year = <<>> /\ df_powers = <<>>
    /\ success_by_decade = <<>> /\ success_by_year = <<>>
    /\ rolling_success = <<>> /\ top_rockets = <<>> /\ summary = <<>>
    /\ country_stats = <<>> /\ org_stats = <<>> /\ yearly_stats = <<>>
    /\ rocket_stats = <<>> /\ decade_stats = <<>>

Init ==
    /\ csv \in Inputs
    /\ openpyxl \in BOOLEAN
    /\ run = 1
    /\ exports = NoExports
    /\ alt = Idle
    /\ Fresh

\* ------------------------------------------------------------ STEP 1: load
LoadOk ==
    /\ pc = "load" /\ csv.kind = "table"
    /\ df' = csv.rows
    /\ out' = out \cup {"loaded"}
    /\ pc' = "rename"
    /\ UNCHANGED <<env, aggregates, frames, exports>>

LoadNotFound ==
    /\ pc = "load" /\ csv.kind = "missing"
    /\ out' = out \cup {"error_not_found"}
    /\ pc' = "exited"
    /\ UNCHANGED <<env, df, aggregates, frames, exports>>

\* the second handler without its exit(): the script carries on
LoadError_mut ==
    /\ pc = "load" /\ csv.kind = "unparsable"
    /\ out' = out \cup {"error_loading"}
    /\ pc' = "rename"
    /\ UNCHANGED <<env, df, aggregates, frames, exports>>

LoadError ==
    /\ pc = "load" /\ csv.kind = "unparsable"
    /\ out' = out \cup {"error_loading"}
    /\ pc' = "exited"
    /\ UNCHANGED <<env, df, aggregates, frames, exports>>

\* ----------------------------------------------- STEPS 2 and 3: normalizer
\* a column read without any value is not a text column: .str raises
AllMissing(t, c) == Len(t) > 0 /\ \A i \in 1..Len(t) : t[i][c] = NaN

RenameStep ==
    /\ pc = "rename"
    /\ df' = Rename(df)
    /\ pc' = "extract"
    /\ UNCHANGED <<env, out, aggregates, frames, exports>>

ExtractStep ==
    /\ pc = "extract"
    /\ ~AllMissing(df, "location_name") /\ ~AllMissing(df, "rocket")
    /\ df' = ExtractFamily(ExtractCountry(df))
    /\ pc' = "parse_date"
    /\ UNCHANGED <<env, out, aggregates, frames, exports>>

ExtractCrash ==
    /\ pc = "extract"
    /\ AllMissing(df, "location_name") \/ AllMissing(df, "rocket")
    /\ df' = IF AllMissing(df, "location_name") THEN df ELSE ExtractCountry(df)
    /\ out' = out \cup {"traceback_extract"}
    /\ pc' = "crashed"
    /\ UNCHANGED <<env, aggregates, frames, exports>>

ParseDateStep ==
    /\ pc = "parse_date"
    /\ df' = ParseDates(df)
    /\ pc' = "dropna"
    /\ UNCHANGED <<env, out, aggregates, frames, exports>>

DropNaStep ==
    /\ pc = "dropna"
    /\ df' = DropNa(df)
    /\ pc' = "temporal"
    /\ UNCHANGED <<env, out, aggregates, frames, exports>>

TemporalStep ==
    /\ pc = "temporal"
    /\ df' = Temporal(df)
    /\ pc' = "success"
    /\ UNCHANGED <<env, out, aggregates, frames, exports>>

SuccessStep ==
    /\ pc = "success"
    /\ df' = Success(df)
    /\ pc' = "canon"
    /\ UNCHANGED <<env, out, aggregates, frames, exports>>

CanonStep ==
    /\ pc = "canon"
    /\ df' = Canon(df)
    /\ out' = out \cup {"cleaned"}
    /\ pc' = "step4"
    /\ UNCHANGED <<env, aggregates, frames, exports>>

\* --------------------------------------------------- STEPS 4-10: aggregator
Step4 ==
    /\ pc = "step4"
    /\ country_missions' = head(value_counts(Column(df, "country_full")), HeadN)
    /\ org_missions' = head(value_counts(Column(df, "agency")), HeadN)
    /\ pc' = "plot4"
    /\ UNCHANGED <<env, out, df, missions_per_year, df_powers, success_by_decade,
                   success_by_year, rolling_success, top_rockets, summary,
                   frames, exports>>

Plot4 ==
    /\ pc = "plot4"
    /\ pc' = "step5"
    /\ UNCHANGED <<env, out, df, aggregates, frames, exports>>

\* whether a bar chart of an empty series raises depends on the plotting library
Plot4Crash ==
    /\ pc = "plot4"
    /\ country_missions = <<>> \/ org_missions = <<>>
    /\ out' = out \cup {"traceback_plot"}
    /\ pc' = "crashed"
    /\ UNCHANGED <<env, df, aggregates, frames, exports>>

\* the filtered frame assigned back to the table
Step5_mut ==
    /\ pc = "step5"
    /\ missions_per_year' = groupby_size(df, "year")
    /\ df_powers' = PowersOf(df)
    /\ df' = PowersOf(df)
    /\ pc' = "step7"
    /\ UNCHANGED <<env, out, country_missions, org_missions,
                   success_by_decade, success_by_year, rolling_success,
                   top_rockets, summary, frames, exports>>

Step5 ==
    /\ pc = "step5"
    /\ missions_per_year' = groupby_size(df, "year")
    /\ df_powers' = PowersOf(df)
    /\ pc' = "step7"
    /\ UNCHANGED <<env, out, df, country_missions, org_missions,
                   success_by_decade, success_by_year, rolling_success,
                   top_rockets, summary, frames, exports>>

Step7 ==
    /\ pc = "step7"
    /\ success_by_decade' = groupby_success(df, "decade")
    /\ success_by_year' = groupby_success(df, "year")
    /\ rolling_success' =
          rolling_mean([p \in 1..Len(success_by_year') |-> success_by_year'[p].rate],
                       5, TRUE)
    /\ pc' = "step8"
    /\ UNCHANGED <<env, out, df, country_missions, org_missions,
                   missions_per_year, df_powers, top_rockets, summary,
                   frames, exports>>

Step8 ==
    /\ pc = "step8"
    /\ top_rockets' = head(value_counts(Column(df, "rocket")), HeadN)
    /\ pc' = "step10"
    /\ UNCHANGED <<env, out, df, country_missions, org_missions,
                   missions_per_year, df_powers, success_by_decade,
                   success_by_year, rolling_success, summary, frames, exports>>

\* idxmax of an empty series and index[0] of an empty index raise
SummaryRaises ==
    missions_per_year = <<>> \/ country_missions = <<>> \/ org_missions = <<>>

Step10 ==
    /\ pc = "step10" /\ ~SummaryRaises
    /\ summary' = SummaryOf(df, country_missions, org_missions,
                            missions_per_year, top_rockets)
    /\ out' = out \cup {"analysis_complete"}
    /\ pc' = "exp_mkdir"
    /\ UNCHANGED <<env, df, country_missions, org_missions, missions_per_year,
                   df_powers, success_by_decade, success_by_year,
                   rolling_success, top_rockets, frames, exports>>

Step10Crash ==
    /\ pc = "step10" /\ SummaryRaises
    /\ out' = out \cup {"traceback_summary"}
    /\ pc' = "crashed"
    /\ UNCHANGED <<env, df, aggregates, frames, exports>>

\* ---------------------------------------------------------- STEP 11: export
\* a file that exists is not written again
WriteFile_mut(a, c) ==
    exports' = IF exports.files[a].run = 0
               THEN [exports EXCEPT !.files[a] = Written(run, c)]
               ELSE exports

WriteFile(a, c) ==
    exports' = [exports EXCEPT !.files[a] = Written(run, c)]

ExpMkdir ==
    /\ pc = "exp_mkdir"
    /\ exports' = [exports EXCEPT !.exists = TRUE]
    /\ out' = IF exports.exists THEN out ELSE out \cup {"created_dir"}
    /\ pc' = "exp_processed"
    /\ UNCHANGED <<env, df, aggregates, frames>>

ExpProcessed ==
    /\ pc = "exp_processed"
    /\ WriteFile("processed", to_csv(df))
    /\ out' = out \cup {"exported_processed"}
    /\ pc' = "exp_country"
    /\ UNCHANGED <<env, df, aggregates, frames>>

ExpCountry ==
    /\ pc = "exp_country"
    /\ country_stats' = StatsOf(df, country_missions, "country_full")
    /\ WriteFile("country", country_stats')
    /\ out' = out \cup {"exported_country"}
    /\ pc' = "exp_org"
    /\ UNCHANGED <<env, df, aggregates, org_stats, yearly_stats, rocket_stats,
                   decade_stats>>

ExpOrg ==
    /\ pc = "exp_org"
    /\ org_stats' = StatsOf(df, org_missions, "agency")
    /\ WriteFile("organization", org_stats')
    /\ out' = out \cup {"exported_organization"}
    /\ pc' = "exp_yearly"
    /\ UNCHANGED <<env, df, aggregates, country_stats, yearly_stats,
                   rocket_stats, decade_stats>>

ExpYearly ==
    /\ pc = "exp_yearly"
    /\ yearly_stats' = YearlyOf(df, missions_per_year)
    /\ WriteFile("yearly", yearly_stats')
    /\ out' = out \cup {"exported_yearly"}
    /\ pc' = "exp_rocket"
    /\ UNCHANGED <<env, df, aggregates, country_stats, org_stats, rocket_stats,
                   decade_stats>>

ExpRocket ==
    /\ pc = "exp_rocket"
    /\ rocket_stats' = StatsOf(df, head(top_rockets, 20), "rocket")
    /\ WriteFile("rocket", rocket_stats')
    /\ out' = out \cup {"exported_rocket"}
    /\ pc' = "exp_summary"
    /\ UNCHANGED <<env, df, aggregates, country_stats, org_stats, yearly_stats,
                   decade_stats>>

ExpSummary ==
    /\ pc = "exp_summary"
    /\ WriteFile("summary", summary)
    /\ out' = out \cup {"exported_summary"}
    /\ pc' = "exp_decade"
    /\ UNCHANGED <<env, df, aggregates, frames>>

ExpDecade ==
    /\ pc = "exp_decade"
    /\ decade_stats' = DecadeOf(success_by_decade)
    /\ WriteFile("decade", decade_stats')
    /\ out' = out \cup {"exported_decade"}
    /\ pc' = "exp_excel"
    /\ UNCHANGED <<env, df, aggregates, country_stats, org_stats, yearly_stats,
                   rocket_stats>>

ExpExcel ==
    /\ pc = "exp_excel" /\ openpyxl
    /\ WriteFile("workbook",
                 [Processed |-> df, Countries |-> country_stats,
                  Organizations |-> org_stats, Yearly |-> yearly_stats,
                  Rockets |-> rocket_stats, Decades |-> decade_stats])
    /\ out' = out \cup {"exported_workbook"}
    /\ pc' = "exp_saved"
    /\ UNCHANGED <<env, df, aggregates, frames>>

\* no inner handler: the ImportError reaches the outer one
ExpExcelSkip_mut ==
    /\ pc = "exp_excel" /\ ~openpyxl
    /\ out' = out \cup {"error_during_export"}
    /\ pc' = "closing"
    /\ UNCHANGED <<env, df, aggregates, frames, exports>>

\* ImportError from pd.ExcelWriter(engine="openpyxl"): inner handler
ExpExcelSkip ==
    /\ pc = "exp_excel" /\ ~openpyxl
    /\ out' = out \cup {"excel_skipped"}
    /\ pc' = "exp_saved"
    /\ UNCHANGED <<env, df, aggregates, frames, exports>>

ExpSaved ==
    /\ pc = "exp_saved"
    /\ out' = out \cup {"all_exports_saved"}
    /\ pc' = "closing"
    /\ UNCHANGED <<env, df, aggregates, frames, exports>>

\* the artifact each export step writes
TargetOf ==
    [exp_processed |-> "processed", exp_country |-> "country",
     exp_org |-> "organization", exp_yearly |-> "yearly",
     exp_rocket |-> "rocket", exp_summary |-> "summary",
     exp_decade |-> "decade", exp_excel |-> "workbook"]

\* any other exception of an export step (a filesystem error): outer handler.
\* The file being written is either untouched or left incomplete.
ExportFail(damaged) ==
    /\ pc = "exp_mkdir" \/ pc \in DOMAIN TargetOf
    /\ pc = "exp_excel" => openpyxl
    /\ damaged => pc \in DOMAIN TargetOf
    /\ exports' = IF damaged
                  THEN [exports EXCEPT !.files[TargetOf[pc]] = Damaged(run)]
                  ELSE exports
    /\ out' = out \cup {"error_during_export"}
    /\ pc' = "closing"
    /\ UNCHANGED <<env, df, aggregates, frames>>

Closing ==
    /\ pc = "closing"
    /\ out' = out \cup {"thank_you"}
    /\ pc' = "done"
    /\ UNCHANGED <<env, df, aggregates, frames, exports>>

Next ==
    \/ LoadOk \/ LoadNotFound \/ LoadError
    \/ RenameStep \/ ExtractStep \/ ExtractCrash \/ ParseDateStep \/ DropNaStep
    \/ TemporalStep \/ SuccessStep \/ CanonStep
    \/ Step4 \/ Plot4 \/ Plot4Crash \/ Step5 \/ Step7 \/ Step8
    \/ Step10 \/ Step10Crash
    \/ ExpMkdir \/ ExpProcessed \/ ExpCountry \/ ExpOrg \/ ExpYearly
    \/ ExpRocket \/ ExpSummary \/ ExpDecade \/ ExpExcel \/ ExpExcelSkip
    \/ ExpSaved \/ (\E damaged \in BOOLEAN : ExportFail(damaged)) \/ Closing

Spec == Init /\ [][Next]_vars

\* ------------------------------------------------- the script run repeatedly
RunPool ==
    { Row(<<"SpaceX">>, <<"KSC", ",", " ", "USA">>, <<8, 7, 2020>>,
          <<"Falcon", " ", "9", " ", "|", " ", "Starlink">>, <<"Success">>),
      Row(<<"RVSN">>, <<"Baikonur", ",", "Kazakhstan">>, <<13, 4, 1957>>,
          <<"Sputnik">>, <<"Failure">>),
      Row(NaN, NaN, <<7, 16, 1969>>, NaN, NaN) }

RunInputs == {NoFile, BadFile} \cup {TableFile(t) : t \in TablesOver(RunPool, 1)}

InitRuns ==
    /\ csv \in RunInputs
    /\ openpyxl \in BOOLEAN
    /\ run = 1
    /\ exports = NoExports
    /\ alt = Idle
    /\ Fresh

\* a new process: nothing but the files survives the previous one
Rerun ==
    /\ pc \in {"done", "exited", "crashed"}
    /\ run < MaxRuns
    /\ run' = run + 1
    /\ csv' \in RunInputs
    /\ openpyxl' \in BOOLEAN
    /\ pc' = "load"
    /\ out' = {}
    /\ df' = <<>>
    /\ country_missions' = <<>> /\ org_missions' = <<>>
    /\ missions_per_year' = <<>> /\ df_powers' = <<>>
    /\ success_by_decade' = <<>> /\ success_by_year' = <<>>
    /\ rolling_success' = <<>> /\ top_rockets' = <<>> /\ summary' = <<>>
    /\ country_stats' = <<>> /\ org_stats' = <<>> /\ yearly_stats' = <<>>
    /\ rocket_stats' = <<>> /\ decade_stats' = <<>>
    /\ UNCHANGED <<exports, alt>>

NextRuns == Next \/ Rerun

SpecRuns == InitRuns /\ [][NextRuns]_vars

\* ================================================================= claims
\* how far the current run has got, read off the position and the reports
AfterDropNa   == pc \in {"temporal", "success", "canon"} \/ "cleaned" \in out
AfterTemporal == pc \in {"success", "canon"} \/ "cleaned" \in out
AfterSuccess  == pc = "canon" \/ "cleaned" \in out
AfterCanon    == "cleaned" \in out
AfterStep4    == "cleaned" \in out /\ pc # "step4"
AfterStep7    == /\ "cleaned" \in out
                 /\ pc \notin {"step4", "plot4", "step5", "step7"}
                 /\ "traceback_plot" \notin out

\* the rows of the input file whose date text parses, in file order
Parses(r) == to_datetime(r.Date) # NaT
Kept == SelectSeq(csv.rows, Parses)

\* C1: after the cleaning step the table holds exactly the loaded rows whose
\* date parsed, in order and with repetitions, each with its parsed non-null
\* date; no later step drops a row.
C1_RetainedIffDateParsed ==
    AfterDropNa =>
        /\ Len(df) = Cardinality({i \in 1..Len(csv.rows) : Parses(csv.rows[i])})
        /\ \A i \in 1..Len(df) :
              /\ df[i].date # NaT
              /\ df[i].date = to_datetime(Kept[i].Date)
              /\ df[i].agency = Kept[i].Organisation
              /\ df[i].location_name = Kept[i].Location
              /\ df[i].rocket = Kept[i].Detail
              /\ df[i].status = Kept[i].Mission_Status

C1_Witness ==
    /\ pc = "done"
    /\ \E i, j \in 1..Len(df) : i < j /\ df[i] = df[j]
    /\ Len(csv.rows) > Len(df)

\* C2: success is true exactly for the statuses "Success" and
\* "Partial Failure", and false for a missing status or a status that
\* differs in case or blanks.
C2_SuccessIffKeyword ==
    AfterSuccess =>
        \A i \in 1..Len(df) :
            df[i].success <=>
                (df[i].status = <<"Success">>
                 \/ df[i].status = <<"Partial", " ", "Failure">>)

C2_Witness ==
    /\ pc = "done"
    /\ \E i, j \in 1..Len(df) :
          /\ df[i].status = <<"Success", " ">> /\ ~df[i].success
          /\ df[j].status = <<"Partial", " ", "Failure">> /\ df[j].success

\* the rows of the table with a value in column c, and those values
PresentIn(c) == {i \in 1..Len(df) : df[i][c] # NaN}
DistinctIn(c) == {df[i][c] : i \in PresentIn(c)}
Listed(counts) == {counts[p].key : p \in 1..Len(counts)}
Total(counts) == SeqSum([p \in 1..Len(counts) |-> counts[p].n])

\* C3 as stated: the per-country counts, and the per-agency counts, add up to
\* the number of retained rows for any input.
C3_CountsSumToTotal ==
    AfterStep4 =>
        /\ Total(country_missions) = Len(df)
        /\ Total(org_missions) = Len(df)

TopCountsOf(counts, c) ==
    /\ Len(counts) = IF Cardinality(DistinctIn(c)) < HeadN
                     THEN Cardinality(DistinctIn(c)) ELSE HeadN
    /\ Cardinality(Listed(counts)) = Len(counts)
    /\ \A p \in 1..Len(counts) :
          /\ counts[p].key \in DistinctIn(c)
          /\ counts[p].n = Cardinality({i \in 1..Len(df) : df[i][c] = counts[p].key})
          /\ \A v \in DistinctIn(c) \ Listed(counts) :
                Cardinality({i \in 1..Len(df) : df[i][c] = v}) <= counts[p].n
    /\ Total(counts) = Cardinality({i \in PresentIn(c) : df[i][c] \in Listed(counts)})
    /\ Total(counts) <= Len(df)
    /\ Total(counts) = Len(df) <=>
          (PresentIn(c) = 1..Len(df) /\ Cardinality(DistinctIn(c)) <= HeadN)

\* C3 amended: the counts are those of the 15 most frequent present values;
\* they add up to the number of retained rows carrying one of these values,
\* which is the total exactly when no value is missing and there are at most
\* 15 distinct values.
C3_CountsSumToListedRows ==
    AfterStep4 =>
        /\ TopCountsOf(country_missions, "country_full")
        /\ TopCountsOf(org_missions, "agency")

C3_Witness ==
    /\ pc = "done"
    /\ Cardinality(DistinctIn("country_full")) > HeadN
    /\ Total(country_missions) < Len(df)
    /\ Total(org_missions) < Len(df)

\* C4: canonicalization is idempotent: the country of every row is the
\* lookup of its raw token, or the raw token itself when the table has no
\* entry for it, and looking the result up again leaves it as it is; no
\* value of the table is a key with a different value.
C4_CanonicalIdempotent ==
    /\ \A k \in DOMAIN country_mapping :
          country_mapping[k] \in DOMAIN country_mapping
              => country_mapping[country_mapping[k]] = country_mapping[k]
    /\ AfterCanon =>
          \A i \in 1..Len(df) :
              LET raw == country_of(Kept[i].Location)
                  c   == df[i].country_full
              IN /\ raw \notin DOMAIN country_mapping => c = raw
                 /\ raw \in DOMAIN country_mapping => c = country_mapping[raw]
                 /\ canonical(c) = c
                 /\ canonical(canonical(raw)) = canonical(raw)

C4_Witness ==
    /\ pc = "done"
    /\ \E i, j \in 1..Len(df) :
          /\ country_of(Kept[i].Location) = <<"USA">>
          /\ df[i].country_full = <<"United", " ", "States">>
          /\ country_of(Kept[j].Location) = <<"Yellow", " ", "Sea">>
          /\ df[j].country_full = <<"Yellow", " ", "Sea">>

\* C5: the decade of every row is its year truncated down to a multiple of
\* ten: decade <= year < decade + 10 and decade is divisible by 10.
C5_DecadeTruncatesYear ==
    AfterTemporal =>
        \A i \in 1..Len(df) :
            /\ df[i].year = df[i].date[1]
            /\ df[i].decade % 10 = 0
            /\ df[i].decade <= df[i].year
            /\ df[i].year < df[i].decade + 10

C5_Witness ==
    /\ pc = "done"
    /\ \E i \in 1..Len(df) : df[i].year = 1957 /\ df[i].decade = 1950

\* C6: in a run whose input file is missing or unreadable the only step is
\* the loader's: it reports the error and exits, leaving the table, every
\* aggregate and the exports directory as they were; nothing else happens
\* in that run.
C6_LoaderFailureTerminates ==
    [][ (csv.kind # "table" /\ run' = run) =>
            /\ pc = "load" /\ pc' = "exited"
            /\ out' \in {out \cup {"error_not_found"}, out \cup {"error_loading"}}
            /\ UNCHANGED <<df, aggregates, frames, exports>> ]_vars

C6_Witness ==
    /\ pc = "exited" /\ run = 2
    /\ "error_loading" \in out
    /\ exports.files["processed"] = Written(1, exports.files["processed"].content)
    /\ exports.files["workbook"].run = 1

ExportOrder == <<"processed", "country", "organization", "yearly", "rocket",
                 "summary", "decade", "workbook">>

\* written completely, or at least opened, by the current run
DoneNow(a) == exports.files[a].run = run /\ exports.files[a].complete
TouchedNow(a) == exports.files[a].run = run
SevenDone == \A k \in 1..7 : DoneNow(ExportOrder[k])

\* C7: a missing spreadsheet library only skips the workbook: the seven
\* other artifacts are written and the export phase completes; any other
\* exception of an export step is reported, no later export step runs, the
\* phase does not complete, and the script goes on to its closing message.
C7_ExportFailureHandling ==
    /\ "excel_skipped" \in out =>
          /\ ~openpyxl /\ SevenDone /\ ~TouchedNow("workbook")
          /\ "error_during_export" \notin out
          /\ pc \in {"exp_saved", "closing", "done"}
    /\ (pc \in {"closing", "done"} /\ ~openpyxl /\ SevenDone) =>
          /\ {"excel_skipped", "all_exports_saved"} \subseteq out
          /\ "error_during_export" \notin out
    /\ "error_during_export" \in out =>
          /\ pc \in {"closing", "done"}
          /\ "all_exports_saved" \notin out /\ "excel_skipped" \notin out
          /\ \E k \in 0..7 :
                /\ \A j \in 1..k : DoneNow(ExportOrder[j])
                /\ ~DoneNow(ExportOrder[k + 1])
                /\ \A j \in (k + 2)..8 : ~TouchedNow(ExportOrder[j])
    /\ pc = "done" => "thank_you" \in out

C7_Witness ==
    /\ pc = "done" /\ run = 2
    /\ "excel_skipped" \in out /\ "all_exports_saved" \in out
    /\ exports.files["workbook"].run = 1

Terminated == pc \in {"done", "exited", "crashed"}

ExpectedContent(a) ==
    CASE a = "processed"    -> to_csv(df)
      [] a = "country"      -> StatsOf(df, country_missions, "country_full")
      [] a = "organization" -> StatsOf(df, org_missions, "agency")
      [] a = "yearly"       -> YearlyOf(df, missions_per_year)
      [] a = "rocket"       -> StatsOf(df, top_rockets, "rocket")
      [] a = "summary"      -> summary
      [] a = "decade"       -> DecadeOf(success_by_decade)
      [] a = "workbook"     ->
            [Processed |-> df,
             Countries |-> StatsOf(df, country_missions, "country_full"),
             Organizations |-> StatsOf(df, org_missions, "agency"),
             Yearly |-> YearlyOf(df, missions_per_year),
             Rockets |-> StatsOf(df, top_rockets, "rocket"),
             Decades |-> DecadeOf(success_by_decade)]

C9_CenteredWindowOfFive ==
    AfterStep7 =>
        LET s == success_by_year
            n == Len(s)
            c(j) == s[j].count
        IN /\ n = Cardinality({df[i].year : i \in 1..Len(df)})
           /\ \A p \in 1..n :
                 /\ c(p) = Cardinality({i \in 1..Len(df) : df[i].year = s[p].key})
                 /\ c(p) >= 1
                 /\ s[p].sum = Cardinality({i \in 1..Len(df) :
                                   df[i].year = s[p].key /\ df[i].success})
                 /\ p > 1 => s[p - 1].key < s[p].key
           /\ Len(rolling_success) = n
           /\ \A i \in 1..n :
                 IF i >= 3 /\ i <= n - 2
                 THEN LET v == rolling_success[i]
                          P == c(i - 2) * c(i - 1) * c(i) * c(i + 1) * c(i + 2)
                          S == SeqSum([j \in 1..5 |->
                                   100 * s[i - 3 + j].sum * (P \div c(i - 3 + j))])
                      IN v # NaN /\ v[1] * 5 * P = v[2] * S
                 ELSE rolling_success[i] = NaN

C9_Witness ==
    /\ pc = "done"
    /\ Len(rolling_success) = 6
    /\ rolling_success[3] = <<70, 1>>
    /\ rolling_success[4] # NaN /\ rolling_success[4] # rolling_success[3]
    /\ success_by_year[3].key + 1 < success_by_year[4].key

\* the table the normalizer produces from the loaded rows
NormalizedOf(t) ==
    Canon(Success(Temporal(DropNa(ParseDates(
        ExtractFamily(ExtractCountry(Rename(t))))))))

\* C10: from the end of normalization on, the table is the normalized table
\* whatever step has run since, with the same columns in every row, and the
\* processed-data file holds exactly its rows.
C10_TableImmutableAfterNormalization ==
    AfterCanon =>
        /\ df = NormalizedOf(csv.rows)
        /\ \A i \in 1..Len(df) :
              DOMAIN df[i] = {ColumnOrder[k] : k \in 1..Len(ColumnOrder)}
        /\ DoneNow("processed") =>
              /\ exports.files["processed"].content = to_csv(NormalizedOf(csv.rows))
              /\ Len(exports.files["processed"].content.lines) = Len(Kept)

C10_Witness ==
    /\ pc = "done"
    /\ DoneNow("processed") /\ DoneNow("decade")
    /\ Len(df) = 2
    /\ Len(df_powers) = 1

\* ------------------------------------ the normalizer in another step order
\* the derivations of STEPS 2 and 3 in the order of the script
SourceOrder ==
    <<"country", "family", "parse", "filter", "temporal", "success", "canon">>

AllOrders ==
    {[i \in 1..Len(SourceOrder) |-> SourceOrder[p[i]]] :
        p \in Permutations(1..Len(SourceOrder))}

PosIn(o, s) == CHOOSE i \in 1..Len(o) : o[i] = s
Before(o, a, b) == PosIn(o, a) < PosIn(o, b)

\* date parsing before the date filter and before the temporal features
CoveredOrders ==
    {o \in AllOrders : Before(o, "parse", "filter") /\ Before(o, "parse", "temporal")}

\* the header of the file, and the columns after df.rename
LoadedColumns ==
    <<"Organisation", "Location", "Date", "Detail", "Rocket_Status", "Price",
      "Mission_Status">>
RenamedColumns == [k \in 1..Len(LoadedColumns) |-> renamed(LoadedColumns[k])]

\* the columns a derivation reads, and those it creates
ReadsOf(s) ==
    CASE s = "country"  -> {"location_name"}
      [] s = "family"   -> {"rocket"}
      [] s = "parse"    -> {"date"}
      [] s = "filter"   -> {"date"}
      [] s = "temporal" -> {"date"}
      [] s = "success"  -> {"status"}
      [] s = "canon"    -> {"country_full"}

CreatesOf(s) ==
    CASE s = "country"  -> <<"country_full">>
      [] s = "family"   -> <<"rocket_family">>
      [] s = "temporal" -> <<"year", "month", "month_name", "decade", "day_of_week">>
      [] s = "success"  -> <<"success">>
      [] OTHER          -> <<>>

\* df[c] of a column that does not exist raises KeyError
StepRaises(s, cols) ==
    \E c \in ReadsOf(s) : \A k \in 1..Len(cols) : cols[k] # c

HasNaT(t) == \E i \in 1..Len(t) : t[i].date = NaT

\* the temporal features of a table that may still hold rows without a date:
\* .dt.year and the like are missing for such a row
TemporalAnyRow(r) ==
    IF r.date = NaT
    THEN ("year" :> NaN) @@ ("month" :> NaN) @@ ("month_name" :> NaN)
         @@ ("decade" :> NaN) @@ ("day_of_week" :> NaN) @@ r
    ELSE TemporalRow(r)
TemporalAny(t) == [i \in 1..Len(t) |-> TemporalAnyRow(t[i])]

\* year, month and decade computed as floating-point numbers whatever the dates
TemporalIsFloat_mut(t) == TRUE

\* .dt.year of a column holding NaT is a float64 column, and stays one when
\* the rows without a date are dropped afterwards
TemporalIsFloat(t) == HasNaT(t)

StepRows(s, t) ==
    CASE s = "country"  -> ExtractCountry(t)
      [] s = "family"   -> ExtractFamily(t)
      [] s = "parse"    -> ParseDates(t)
      [] s = "filter"   -> DropNa(t)
      [] s = "temporal" -> TemporalAny(t)
      [] s = "success"  -> Success(t)
      [] s = "canon"    -> Canon(t)

OrderPool ==
    { Row(<<"SpaceX">>, <<"KSC", ",", " ", "Florida", ",", " ", "USA">>,
          <<8, 7, 2020>>,
          <<"Falcon", " ", "9", " ", "|", " ", "Starlink">>, <<"Success">>),
      Row(<<"Arianespace">>, <<"Kourou", ",", " ", "French", " ", "Guiana">>,
          <<2, 29, 2019>>, <<"Ariane", " ", "5", " ", "|">>,
          <<"Partial", " ", "Failure">>) }

OrderInputs == {TableFile(t) : t \in TablesOver(OrderPool, MaxOrderRows)}

\* the table loaded and renamed, the derivations about to run in some order
InitOrder ==
    /\ csv \in OrderInputs
    /\ openpyxl = FALSE
    /\ run = 1
    /\ exports = NoExports
    /\ Fresh
    /\ \E o \in CoveredOrders :
          alt = [order |-> o, done |-> 0, rows |-> Rename(csv.rows),
                 columns |-> RenamedColumns, float_temporal |-> FALSE,
                 status |-> "running"]

NextStep == alt.order[alt.done + 1]

\* the next derivation of the order is s and it runs on the table as it is
OrdStep(s) ==
    /\ alt.status = "running" /\ alt.done < Len(alt.order)
    /\ NextStep = s
    /\ ~StepRaises(s, alt.columns)
    /\ alt' = [alt EXCEPT
                 !.done = @ + 1,
                 !.rows = StepRows(s, @),
                 !.columns = @ \o CreatesOf(s),
                 !.float_temporal =
                     IF s = "temporal" THEN TemporalIsFloat(alt.rows) ELSE @]
    /\ UNCHANGED <<csv, openpyxl, run, pc, out, df, aggregates, frames, exports>>

OrdCountry == OrdStep("country")
OrdFamily == OrdStep("family")
OrdParse == OrdStep("parse")
OrdFilter == OrdStep("filter")
OrdTemporal == OrdStep("temporal")
OrdSuccess == OrdStep("success")
OrdCanon == OrdStep("canon")

\* the next derivation reads a column that no earlier one has created
OrdKeyError ==
    /\ alt.status = "running" /\ alt.done < Len(alt.order)
    /\ StepRaises(NextStep, alt.columns)
    /\ alt' = [alt EXCEPT !.status = "failed"]
    /\ UNCHANGED <<csv, openpyxl, run, pc, out, df, aggregates, frames, exports>>

NextOrder ==
    \/ OrdCountry \/ OrdFamily \/ OrdParse \/ OrdFilter \/ OrdTemporal
    \/ OrdSuccess \/ OrdCanon \/ OrdKeyError

SpecOrder == InitOrder /\ [][NextOrder]_vars

OrderEnded == alt.status = "failed" \/ alt.done = Len(alt.order)

ColumnSet(cols) == {cols[k] : k \in 1..Len(cols)}

\* the table of the script's own order: same rows and cell values, same
\* number types (the position of the columns is not compared)
SameAsSourceOrder ==
    /\ alt.status = "running"
    /\ alt.rows = NormalizedOf(csv.rows)
    /\ ~alt.float_temporal
    /\ ColumnSet(alt.columns) = ColumnSet(ColumnOrder)

\* C11 as stated: every order of the seven derivations that keeps date
\* parsing before the date filter and before the temporal features ends with
\* the table of the script's own order.
C11_AnyCoveredOrderSameTable ==
    OrderEnded => SameAsSourceOrder

\* C11 amended: an order that also keeps the date filter before the temporal
\* features and country extraction before canonicalization never fails and
\* ends with the table of the script's own order, column positions aside.
C11_DependencyOrderSameTable ==
    (/\ alt.status # "idle"
     /\ Before(alt.order, "parse", "filter")
     /\ Before(alt.order, "filter", "temporal")
     /\ Before(alt.order, "country", "canon")) =>
        /\ alt.status = "running"
        /\ OrderEnded => SameAsSourceOrder

C11_Witness ==
    /\ alt.done = Len(alt.order)
    /\ alt.order = <<"success", "parse", "country", "filter", "canon",
                     "temporal", "family">>
    /\ Len(csv.rows) = 2 /\ Len(alt.rows) = 1
    /\ alt.rows[1].country_full = <<"United", " ", "States">>
    /\ alt.columns # ColumnOrder
    /\ SameAsSourceOrder

====
